---- MODULE Spec2Model ----
(***************************************************************************)
(* A model of enumerate_over_gcf.py: the LHS hash table (LHSHashTable),    *)
(* its snapshot cache (hash_instance, save, load_from), the two-phase      *)
(* search (EnumerateOverGCF.find_hits) and the work split over processes   *)
(* (multi_core_enumeration, multi_core_enumeration_wrapper).               *)
(*                                                                         *)
(* Numbers.  mpmath values are binary floating point numbers, hence        *)
(* rationals; a value is the pair <<n, d>> standing for n/d, and d = 0     *)
(* stands for a value that is not finite.  The constant is a rational      *)
(* <<p, q>>, the threshold is 1/threshold_inv, and the tolerance of        *)
(* mpmath.almosteq is 2^-(prec-4) as in mpmath.  The magnitudes are scaled *)
(* down (threshold 1 or 1/10 for 1e-10, a precision of WorkPrec bits for   *)
(* 50 digits, series of EnumTerms terms for 32) to keep integers small.    *)
(***************************************************************************)
EXTENDS Integers, Sequences, FiniteSets, TLC

VARIABLES
    \* ---- LHSHashTable.__init__ (one table under construction) ----
    const_val,      \* the constant <<p, q>> handed to the constructor
    threshold_inv,  \* 1 / self.threshold
    lhs_limit,      \* lhs_search_limit of the enumerator that builds the table
    pos,            \* how many (a,b,c,d) tuples the four loops have passed
    s,              \* self.s : key -> <<a, b, c, d>>
    tpc,            \* "idle" | "building" | "built"
    prev_table,     \* the table of the previously constructed enumerator
    \* ---- multi_core_enumeration_wrapper and its workers ----
    poly_a,             \* the caller's poly_a list (workers run in-process write to it)
    poly_b,             \* the caller's poly_b list
    arg_poly_a,         \* the value of poly_a when the wrapper was called
    num_cores,          \* num_cores
    manual_splits_size, \* manual_splits_size : None or [sizes |-> list of tile sizes]
    splits_size,        \* the tile sizes bound into func
    hit_rule,           \* which candidates find_hits confirms
    wpc,                \* wrapper: "start" | "ready" | "running" | "returned"
    w_pc,               \* worker index -> "pending" | "sliced" | "done"
    w_poly_a,           \* worker index -> the worker's poly_a
    w_poly_b,           \* worker index -> the worker's poly_b
    w_results,          \* worker index -> the list the worker returned
    spawned,            \* number of child processes created
    ret,                \* what the wrapper returned
    \* ---- hash_instance, LHSHashTable.save, LHSHashTable.load_from ----
    hash_instance,      \* the process-wide instance: [name, hash]
    files,              \* file name -> the table pickled into it
    last_saved,         \* file name -> the table most recently saved under it
    loaded,             \* what the last call, a load_from, returned: [name, table]
    \* ---- EnumerateOverGCF.find_hits (one search orchestrator) ----
    e_const,            \* self.const_val() as <<p, q>>
    hash_table,         \* self.hash_table : [threshold_inv, s]
    gcf_signal,         \* how the evaluator reports a degenerate fraction
    e_poly_a,           \* poly_a of the request
    e_poly_b,           \* poly_b of the request
    phase,              \* "new" | "init" | "enumerating" | "verifying" | "done"
                        \* | "aborted" (find_hits raised) | "failed" (__init__ raised)
    cache_side,         \* "a" or "b": the side held in memory
    cached_coefs,       \* coefficient list of the cached side, zero series filtered
    stream_coefs,       \* the coefficient iterator of the streamed side, as a list
    i_stream,           \* position of the outer loop in stream_coefs
    j_cached,           \* position of the inner loop in cached_coefs
    results,            \* results of __first_enumeration so far
    r_idx,              \* position of __refine_results in the intermediate results
    refined,            \* results of __refine_results so far
    e_limit             \* lhs_search_limit of the enumerator

vars_tab == <<const_val, threshold_inv, lhs_limit, pos, s, tpc, prev_table>>

vars_part == <<poly_a, poly_b, arg_poly_a, num_cores, manual_splits_size,
               splits_size, hit_rule, wpc, w_pc, w_poly_a, w_poly_b,
               w_results, spawned, ret>>

vars_snap == <<hash_instance, files, last_saved, loaded>>

vars_enum == <<e_const, hash_table, gcf_signal, e_poly_a, e_poly_b, phase,
               cache_side, cached_coefs, stream_coefs, i_stream, j_cached,
               results, r_idx, refined, e_limit>>

vars == <<vars_tab, vars_part, vars_snap, vars_enum>>

----------------------------------------------------------------------------
\* Bounds of the model.

\* largest lhs_search_limit a table is built with
MaxLimit == 2
\* working precision in bits (mpmath.workdps(50) is 169 bits in the source)
WorkPrec == 14
\* largest num_cores
MaxCores == 3
\* longest coefficient range of a poly_a term
MaxRange == 4
\* terms of the series of the first enumeration (32 in the source)
EnumTerms == 3
\* terms of the series regenerated for verification (1000 in the source)
VerifyTerms == 5
\* significant digits of the confirmation strings (100 in the source)
ConfirmDigits == 2

\* self.verify_dps
VerifyDps == 2000

None == [none |-> TRUE]

\* constants the search is run against, as <<p, q>> = p/q
ConstVals == {<<5, 2>>, <<1, 3>>, <<2, 1>>}
\* 1/threshold for the key lengths modelled
ThresholdInvs == {1, 10}

----------------------------------------------------------------------------
\* Arithmetic helpers.

Abs(x) == IF x < 0 THEN -x ELSE x

\* the set of the items of a list
Elems(q) == {q[i] : i \in 1..Len(q)}

Max2(x, y) == IF x < y THEN y ELSE x

RECURSIVE Pow2(_)
Pow2(n) == IF n <= 0 THEN 1 ELSE 2 * Pow2(n - 1)

\* math.gcd: the non-negative greatest common divisor, gcd(0, 0) = 0
RECURSIVE gcd(_, _)
gcd(x, y) == IF y = 0 THEN Abs(x) ELSE gcd(y, x % Abs(y))

\* int(n/d): Python's int() of a real truncates toward zero
IntTrunc(n, d) ==
    IF (n < 0) = (d < 0) THEN Abs(n) \div Abs(d) ELSE -(Abs(n) \div Abs(d))

\* mpmath.isnan(v) or mpmath.isinf(v)
IsNanOrInf(v) == v[2] = 0

\* mpmath.almosteq(s, t, rel_eps) for finite s = v[1]/v[2], t = w[1]/w[2] and
\* abs_eps = rel_eps = 1/inv: |s - t| <= abs_eps, or |s - t| <= rel_eps
\* times the larger of |s| and |t|
AlmostEqTol(v, w, inv) ==
    LET diffn == Abs(v[1] * w[2] - w[1] * v[2])
        dd    == Abs(v[2] * w[2])
        big   == Max2(Abs(v[1] * w[2]), Abs(w[1] * v[2]))
    IN  \/ diffn * inv <= dd
        \/ diffn * inv <= big

\* mpmath.almosteq(s, t) with the default tolerance 2^(-prec+4)
almosteq(v, w, prec) == AlmostEqTol(v, w, Pow2(prec - 4))

----------------------------------------------------------------------------
\* LHSHashTable.__init__

EmptyTable == [k \in {} |-> <<>>]

\* range(self.lhs_limit, self.lhs_limit + 1) : the limit alone
SearchMutTop(L) == [i \in 1..1 |-> L]

\* range(self.lhs_limit + 1) : the a, b range
SearchRangeTop(L) == [i \in 1..(L + 1) |-> i - 1]

\* range(-self.lhs_limit, self.lhs_limit + 1) : the c, d range
SearchRangeBottom(L) == [i \in 1..(2 * L + 1) |-> i - 1 - L]

\* number of iterations of the four nested loops
NumTuples(L) ==
    Len(SearchRangeTop(L)) * Len(SearchRangeTop(L))
        * Len(SearchRangeBottom(L)) * Len(SearchRangeBottom(L))

\* the (a, b, c, d) of iteration i (0-based): a outermost, d innermost
TupleAt(i, L) ==
    LET top == SearchRangeTop(L)
        bot == SearchRangeBottom(L)
        nt  == Len(top)
        nb  == Len(bot)
    IN  << top[(i \div (nb * nb * nt)) + 1],
           top[((i \div (nb * nb)) % nt) + 1],
           bot[((i \div nb) % nb) + 1],
           bot[(i % nb) + 1] >>

\* numerator = a * const_val + b and denominator = c * const_val + d, both
\* multiplied by the constant's denominator q
NumeratorOf(m, cv) == m[1] * cv[1] + m[2] * cv[2]
DenominatorOf(m, cv) == m[3] * cv[1] + m[4] * cv[2]

\* val = numerator / denominator
ValOf(m, cv) == <<NumeratorOf(m, cv), DenominatorOf(m, cv)>>

\* (mpf(a) + mpf(b)) / (c + d) : the transform at x = 1
ValAtOne(m) == <<m[1] + m[2], m[3] + m[4]>>

\* the filters without the test against the value at x = 1
MutAcceptNoIndep(m, cv) ==
    /\ gcd(gcd(m[1], m[2]), gcd(m[3], m[4])) = 1
    /\ DenominatorOf(m, cv) # 0
    /\ NumeratorOf(m, cv) # 0
    /\ ~IsNanOrInf(ValOf(m, cv))

\* the filters of the loop body: TRUE when the tuple reaches the key lookup
Accepted(m, cv) ==
    /\ gcd(gcd(m[1], m[2]), gcd(m[3], m[4])) = 1
    /\ DenominatorOf(m, cv) # 0
    /\ NumeratorOf(m, cv) # 0
    /\ ~IsNanOrInf(ValOf(m, cv))
    /\ ~(/\ (m[3] + m[4]) # 0
         /\ almosteq(ValOf(m, cv), ValAtOne(m), WorkPrec))

\* key = int(val / self.threshold)
KeyOf(v, thrinv) == IntTrunc(v[1] * thrinv, v[2])

\* self.s[key] = [[a, b], [c, d]] without the `key in self.s` test
MutStoreOverwrite(tab, key, m) ==
    [k \in (DOMAIN tab) \cup {key} |-> IF k = key THEN m ELSE tab[k]]

\* if key in self.s: continue ; self.s[key] = [[a, b], [c, d]]
StoreEntry(tab, key, m) ==
    IF key \in DOMAIN tab
    THEN tab
    ELSE [k \in (DOMAIN tab) \cup {key} |-> IF k = key THEN m ELSE tab[k]]

\* one iteration of the innermost loop body
LoopBody(tab, m, cv, thrinv) ==
    IF Accepted(m, cv)
    THEN StoreEntry(tab, KeyOf(ValOf(m, cv), thrinv), m)
    ELSE tab

\* the table after the first n iterations, as one value
RECURSIVE BuildUpTo(_, _, _, _)
BuildUpTo(n, L, cv, thrinv) ==
    IF n = 0 THEN EmptyTable
    ELSE LoopBody(BuildUpTo(n - 1, L, cv, thrinv), TupleAt(n - 1, L), cv, thrinv)

\* LHSHashTable(range(L + 1), range(-L, L + 1), const_val, threshold)
LHSHashTable(L, cv, thrinv) == BuildUpTo(NumTuples(L), L, cv, thrinv)

\* self.s = {} ; self.threshold = threshold : a constructor call starts
NewTable(L) ==
    /\ tpc \in {"idle", "built"}
    /\ prev_table' = IF tpc = "built"
                     THEN [limit |-> lhs_limit, s |-> s]
                     ELSE prev_table
    /\ lhs_limit' = L
    /\ s' = EmptyTable
    /\ pos' = 0
    /\ tpc' = "building"
    /\ UNCHANGED <<const_val, threshold_inv>>
    /\ UNCHANGED <<vars_part, vars_snap, vars_enum>>

\* one pass through the body of the four nested loops
BuildStep ==
    /\ tpc = "building"
    /\ pos < NumTuples(lhs_limit)
    /\ s' = LoopBody(s, TupleAt(pos, lhs_limit), const_val, threshold_inv)
    /\ pos' = pos + 1
    /\ UNCHANGED <<const_val, threshold_inv, lhs_limit, tpc, prev_table>>
    /\ UNCHANGED <<vars_part, vars_snap, vars_enum>>

\* the loops are exhausted: the constructor returns
BuildDone ==
    /\ tpc = "building"
    /\ pos = NumTuples(lhs_limit)
    /\ tpc' = "built"
    /\ UNCHANGED <<const_val, threshold_inv, lhs_limit, pos, s, prev_table>>
    /\ UNCHANGED <<vars_part, vars_snap, vars_enum>>

\* no enumerator has been constructed
IdleEnum ==
    /\ e_const = <<1, 1>>
    /\ hash_table = None
    /\ gcf_signal = "raise"
    /\ e_poly_a = <<>>
    /\ e_poly_b = <<>>
    /\ phase = "idle"
    /\ cache_side = "a"
    /\ cached_coefs = <<>>
    /\ stream_coefs = <<>>
    /\ i_stream = 0
    /\ j_cached = 0
    /\ results = <<>>
    /\ r_idx = 0
    /\ refined = <<>>
    /\ e_limit = 0

\* hash_instance = GlobalHashTableInstance() : hash = {}, name = '' ; no file
IdleSnap ==
    /\ hash_instance = [name |-> "", hash |-> None]
    /\ files = [n \in {} |-> None]
    /\ last_saved = [n \in {} |-> None]
    /\ loaded = None

\* the wrapper has not been called
IdlePart ==
    /\ poly_a = <<>>
    /\ poly_b = <<>>
    /\ arg_poly_a = <<>>
    /\ num_cores = 1
    /\ manual_splits_size = None
    /\ splits_size = <<>>
    /\ hit_rule = "all"
    /\ wpc = "idle"
    /\ w_pc = <<>>
    /\ w_poly_a = <<>>
    /\ w_poly_b = <<>>
    /\ w_results = <<>>
    /\ spawned = 0
    /\ ret = None

\* no table is under construction
IdleTable ==
    /\ const_val = <<1, 1>>
    /\ threshold_inv = 1
    /\ lhs_limit = 0
    /\ pos = 0
    /\ s = EmptyTable
    /\ tpc = "idle"
    /\ prev_table = None

InitTable ==
    /\ const_val \in ConstVals
    /\ threshold_inv \in ThresholdInvs
    /\ lhs_limit = 0
    /\ pos = 0
    /\ s = EmptyTable
    /\ tpc = "idle"
    /\ prev_table = None
    /\ IdlePart
    /\ IdleSnap
    /\ IdleEnum

NextTable ==
    \/ \E L \in 0..MaxLimit : NewTable(L)
    \/ BuildStep
    \/ BuildDone

SpecTable == InitTable /\ [][NextTable]_vars

----------------------------------------------------------------------------
\* multi_core_enumeration_wrapper / multi_core_enumeration

\* lst[lo:hi] for 0 <= lo, 0 <= hi : Python clamps both ends to len(lst)
PySlice(lst, lo, hi) ==
    SubSeq(lst, lo + 1, IF hi < Len(lst) THEN hi ELSE Len(lst))

\* lst[lo:]
PySliceFrom(lst, lo) == SubSeq(lst, lo + 1, Len(lst))

\* itertools.product(*poly) as a list: the last term varies fastest
RECURSIVE ProductSeq(_)
ProductSeq(poly) ==
    IF Len(poly) = 0 THEN << <<>> >>
    ELSE LET front == ProductSeq(SubSeq(poly, 1, Len(poly) - 1))
             last  == poly[Len(poly)]
         IN  [idx \in 1..(Len(front) * Len(last)) |->
                 Append(front[((idx - 1) \div Len(last)) + 1],
                        last[((idx - 1) % Len(last)) + 1])]

RECURSIVE SumSeq(_)
SumSeq(q) == IF Len(q) = 0 THEN 0 ELSE q[1] + SumSeq(Tail(q))

\* whether find_hits confirms the candidate with a_n coefficients coef
IsHit(coef) ==
    \/ hit_rule = "all"
    \/ hit_rule = "even" /\ SumSeq(coef) % 2 = 0

\* enumerator.find_hits(poly_a, poly_b, ...) as seen by the work split: the
\* confirmed candidates of the worker's own product, in enumeration order
\* (a result is written as its a_n coefficient assignment)
FindHitsOf(pa) == SelectSeq(ProductSeq(pa), IsHit)

\* the slicing loop without the last worker's open-ended slice
MutSliceNoRemainder(pa, sizes, index, cores) ==
    [k \in 1..Len(pa) |->
        IF k <= Len(sizes)
        THEN PySlice(pa[k], index * sizes[k], (index + 1) * sizes[k])
        ELSE pa[k]]

\* the for-loop over splits_size: the slice worker `index` keeps of every
\* partitioned term, the other terms untouched
SlicePolyA(pa, sizes, index, cores) ==
    [k \in 1..Len(pa) |->
        IF k <= Len(sizes)
        THEN IF index = cores - 1
             THEN PySliceFrom(pa[k], index * sizes[k])
             ELSE PySlice(pa[k], index * sizes[k], (index + 1) * sizes[k])
        ELSE pa[k]]

Workers == 0..(num_cores - 1)

\* if manual_splits_size is None: manual_splits_size = [len(poly_a[0]) // num_cores]
\* ; func = partial(multi_core_enumeration, ..., manual_splits_size, ...)
WrapperSplit ==
    /\ wpc = "start"
    /\ splits_size' = IF manual_splits_size = None
                      THEN << Len(poly_a[1]) \div num_cores >>
                      ELSE manual_splits_size.sizes
    /\ wpc' = "ready"
    /\ UNCHANGED <<poly_a, poly_b, arg_poly_a, num_cores, manual_splits_size,
                   hit_rule, w_pc, w_poly_a, w_poly_b, w_results, spawned, ret>>
    /\ UNCHANGED <<vars_tab, vars_snap, vars_enum>>

\* if num_cores == 1: func(0) is called in this process ;
\* else: pool = multiprocessing.Pool(num_cores) ; pool.map(func, range(num_cores))
Dispatch ==
    /\ wpc = "ready"
    /\ spawned' = IF num_cores = 1 THEN 0 ELSE num_cores
    /\ wpc' = "running"
    /\ UNCHANGED <<poly_a, poly_b, arg_poly_a, num_cores, manual_splits_size,
                   splits_size, hit_rule, w_pc, w_poly_a, w_poly_b, w_results, ret>>
    /\ UNCHANGED <<vars_tab, vars_snap, vars_enum>>

\* multi_core_enumeration, the slicing loop.  A pool worker slices the copy
\* of poly_a it unpickled; the in-process call slices the caller's list.
WorkerSlice(i) ==
    /\ wpc = "running"
    /\ w_pc[i] = "pending"
    /\ w_poly_a' = [w_poly_a EXCEPT ![i] = SlicePolyA(poly_a, splits_size, i, num_cores)]
    /\ w_poly_b' = [w_poly_b EXCEPT ![i] = poly_b]
    /\ poly_a' = IF num_cores = 1
                 THEN SlicePolyA(poly_a, splits_size, i, num_cores)
                 ELSE poly_a
    /\ w_pc' = [w_pc EXCEPT ![i] = "sliced"]
    /\ UNCHANGED <<poly_b, arg_poly_a, num_cores, manual_splits_size, splits_size,
                   hit_rule, wpc, w_results, spawned, ret>>
    /\ UNCHANGED <<vars_tab, vars_snap, vars_enum>>

\* multi_core_enumeration, from the enumerator's construction to `return results`
WorkerFind(i) ==
    /\ wpc = "running"
    /\ w_pc[i] = "sliced"
    /\ w_results' = [w_results EXCEPT ![i] = FindHitsOf(w_poly_a[i])]
    /\ w_pc' = [w_pc EXCEPT ![i] = "done"]
    /\ UNCHANGED <<poly_a, poly_b, arg_poly_a, num_cores, manual_splits_size,
                   splits_size, hit_rule, wpc, w_poly_a, w_poly_b, spawned, ret>>
    /\ UNCHANGED <<vars_tab, vars_snap, vars_enum>>

\* results = func(0)  |  results = pool.map(func, range(num_cores)) ;
\* return results.  pool.map gives one item per worker, in index order: the
\* list a worker returned.  `flat` tells a list of results from a list of lists.
WrapperReturn ==
    /\ wpc = "running"
    /\ \A i \in Workers : w_pc[i] = "done"
    /\ ret' = IF num_cores = 1
              THEN [flat |-> TRUE, list |-> w_results[0]]
              ELSE [flat |-> FALSE,
                    list |-> [i \in 1..num_cores |-> w_results[i - 1]]]
    /\ wpc' = "returned"
    /\ UNCHANGED <<poly_a, poly_b, arg_poly_a, num_cores, manual_splits_size,
                   splits_size, hit_rule, w_pc, w_poly_a, w_poly_b, w_results, spawned>>
    /\ UNCHANGED <<vars_tab, vars_snap, vars_enum>>

\* range(n) as a list
RangeList(n) == [i \in 1..n |-> i - 1]

\* the poly_a arguments: one or two terms, each range(n) with 1 <= n <= MaxRange
PolyArgs ==
    {<<RangeList(n)>> : n \in 1..MaxRange}
        \cup {<<RangeList(n), RangeList(m)>> : n \in 1..MaxRange, m \in 1..MaxRange}

\* the manual tilings of a poly_a: None, or a tile size for each of the
\* first one or two terms
SplitArgs(pa) ==
    {None}
        \cup {[sizes |-> <<t>>] : t \in 0..MaxRange}
        \cup IF Len(pa) >= 2
             THEN {[sizes |-> <<t, u>>] : t \in 0..MaxRange, u \in 0..MaxRange}
             ELSE {}

InitPart ==
    /\ num_cores \in 1..MaxCores
    /\ poly_a \in PolyArgs
    /\ arg_poly_a = poly_a
    /\ poly_b = <<RangeList(2)>>
    /\ manual_splits_size \in SplitArgs(poly_a)
    /\ splits_size = <<>>
    /\ hit_rule \in {"all", "even"}
    /\ wpc = "start"
    /\ w_pc = [i \in 0..(num_cores - 1) |-> "pending"]
    /\ w_poly_a = [i \in 0..(num_cores - 1) |-> <<>>]
    /\ w_poly_b = [i \in 0..(num_cores - 1) |-> <<>>]
    /\ w_results = [i \in 0..(num_cores - 1) |-> <<>>]
    /\ spawned = 0
    /\ ret = None
    /\ IdleTable
    /\ IdleSnap
    /\ IdleEnum

NextPart ==
    \/ WrapperSplit
    \/ Dispatch
    \/ \E i \in Workers : WorkerSlice(i)
    \/ \E i \in Workers : WorkerFind(i)
    \/ WrapperReturn

SpecPart == InitPart /\ [][NextPart]_vars

----------------------------------------------------------------------------
\* hash_instance, LHSHashTable.save, LHSHashTable.load_from

\* the paths tables are saved under
FileNames == {"tmp_hash.p", "saved_hash.p"}

\* the tables of the enumerators a process constructs: threshold and entries
TableObjects ==
    {[threshold_inv |-> th, s |-> LHSHashTable(1, cv, th)] :
        cv \in ConstVals, th \in ThresholdInvs}

\* LHSHashTable.__eq__ : equal thresholds and equal sorted key lists
TableEq(t1, t2) ==
    /\ t1.threshold_inv = t2.threshold_inv
    /\ DOMAIN t1.s = DOMAIN t2.s

\* pickle.dump(self, f) then pickle.load(f) : the object's fields come back
Pickled(tab) == [threshold_inv |-> tab.threshold_inv, s |-> tab.s]

Unpickled(data) == [threshold_inv |-> data.threshold_inv, s |-> data.s]

\* f[n] = v for a function that may not have n yet
Put(f, n, v) == [x \in (DOMAIN f) \cup {n} |-> IF x = n THEN v ELSE f[x]]

\* LHSHashTable.save(self, name)
Save(tab, name) ==
    /\ hash_instance' = IF hash_instance.name # name
                        THEN [name |-> name, hash |-> tab]
                        ELSE hash_instance
    /\ files' = Put(files, name, Pickled(tab))
    /\ last_saved' = Put(last_saved, name, tab)
    /\ loaded' = None
    /\ UNCHANGED <<vars_tab, vars_part, vars_enum>>

\* LHSHashTable.load_from(name), the instance holds that name
LoadFromInstance(name) ==
    /\ hash_instance.name = name
    /\ loaded' = [name |-> name, table |-> hash_instance.hash]
    /\ UNCHANGED <<hash_instance, files, last_saved>>
    /\ UNCHANGED <<vars_tab, vars_part, vars_enum>>

\* LHSHashTable.load_from(name), the file is read (it has to exist)
LoadFromFile(name) ==
    /\ hash_instance.name # name
    /\ name \in DOMAIN files
    /\ loaded' = [name |-> name, table |-> Unpickled(files[name])]
    /\ hash_instance' = [name |-> name, hash |-> Unpickled(files[name])]
    /\ UNCHANGED <<files, last_saved>>
    /\ UNCHANGED <<vars_tab, vars_part, vars_enum>>

InitSnap ==
    /\ IdleSnap
    /\ IdleTable
    /\ IdlePart
    /\ IdleEnum

NextSnap ==
    \/ \E tab \in TableObjects : \E name \in FileNames : Save(tab, name)
    \/ \E name \in FileNames : LoadFromInstance(name)
    \/ \E name \in FileNames : LoadFromFile(name)

SpecSnap == InitSnap /\ [][NextSnap]_vars

----------------------------------------------------------------------------
\* The collaborators of the search: series_generators and mobius

\* create_series_from_compact_poly(coef, n): the compact polynomial
\* n(n(..(n*c_1 + c_2)..) + c_k of the coefficients, at the indices 0 .. n-1
RECURSIVE PolyAt(_, _)
PolyAt(coef, n) ==
    IF Len(coef) = 0 THEN 0
    ELSE PolyAt(SubSeq(coef, 1, Len(coef) - 1), n) * n + coef[Len(coef)]

create_series(coef, n) == [idx \in 1..n |-> PolyAt(coef, idx - 1)]

\* 0 in series
HasZero(series) == \E idx \in 1..Len(series) : series[idx] = 0

\* EfficientGCF(an, bn): the forward recurrence of
\* an[0] + bn[0]/(an[1] + bn[1]/(an[2] + ...)); <<p, q, p_prev, q_prev>> at
\* index n (0-based) of the sequences.  (The one-element sets bind the
\* previous convergent, and the two series in GcfValue, to their values, so
\* that TLC computes each of them once.)
RECURSIVE Convergent(_, _, _)
Convergent(an, bn, n) ==
    IF n = 0 THEN <<an[1], 1, 1, 0>>
    ELSE CHOOSE next \in
             { << an[n + 1] * c[1] + bn[n] * c[3],
                  an[n + 1] * c[2] + bn[n] * c[4],
                  c[1], c[2] >> : c \in {Convergent(an, bn, n - 1)} } : TRUE

\* EfficientGCF(an, bn).evaluate(): the value p/q of the last convergent; a
\* zero q is a degenerate fraction (no finite value)
GcfValue(an, bn) ==
    CHOOSE v \in
        { <<c[1], c[2]>> :
            c \in {Convergent(a, b, Len(a) - 1) : a \in {an}, b \in {bn}} } : TRUE

----------------------------------------------------------------------------
\* EnumerateOverGCF.__first_enumeration

\* __number_of_elements
NumberOfElements(poly) ==
    LET RECURSIVE Prod(_)
        Prod(k) == IF k = 0 THEN 1 ELSE Prod(k - 1) * Len(poly[k])
    IN  Prod(Len(poly))

\* neg_poly_b = [[-i for i in b] for b in poly_b]
NegPoly(poly) == [k \in 1..Len(poly) |-> [x \in 1..Len(poly[k]) |-> -poly[k][x]]]

\* a_coef_iter
ACoefIter(pa) == ProductSeq(pa)

\* b_coef_iter = chain(product(*poly_b), product(*neg_poly_b))
BCoefIter(pb) == ProductSeq(pb) \o ProductSeq(NegPoly(pb))

\* whether a coefficient assignment survives `0 not in series`
SeriesNonZero(coef) == ~HasZero(create_series(coef, EnumTerms))

\* __create_series_list: the coefficient list without the assignments whose
\* series has a zero term (the series list is create_series of each)
CreateSeriesList(coefs) == SelectSeq(coefs, SeriesNonZero)

\* if size_a > size_b: cache {bn} ; else: cache {an}
CacheSideOf(pa, pb) ==
    IF NumberOfElements(pa) > 2 * NumberOfElements(pb) THEN "b" ELSE "a"

\* Match(lhs_coefs, rhs_an_poly, rhs_bn_poly)
Match(lhs, an_coef, bn_coef) ==
    [lhs_coefs |-> lhs, rhs_an_poly |-> an_coef, rhs_bn_poly |-> bn_coef]

\* the a_n and b_n coefficients of the pair under the loops
PairA == IF cache_side = "b" THEN stream_coefs[i_stream + 1] ELSE cached_coefs[j_cached + 1]
PairB == IF cache_side = "b" THEN cached_coefs[j_cached + 1] ELSE stream_coefs[i_stream + 1]

\* gcf.evaluate() of the pair under the loops
PairValue ==
    GcfValue(create_series(PairA, EnumTerms), create_series(PairB, EnumTerms))

\* find_hits(pa, pb) is called on the constructed enumerator, for the first
\* time or after an earlier call returned or raised (a later call repeats
\* the request of the first); lines 209-224 and 239-243: the sizes, the
\* choice of the cached side and its series list.  The locals of an earlier
\* call are gone.
EnumStart(pa, pb) ==
    /\ \/ phase = "init"
       \/ phase \in {"done", "aborted"} /\ pa = e_poly_a /\ pb = e_poly_b
    /\ e_poly_a' = pa
    /\ e_poly_b' = pb
    /\ cache_side' = CacheSideOf(pa, pb)
    /\ cached_coefs' = IF CacheSideOf(pa, pb) = "b"
                       THEN CreateSeriesList(BCoefIter(pb))
                       ELSE CreateSeriesList(ACoefIter(pa))
    /\ stream_coefs' = IF CacheSideOf(pa, pb) = "b"
                       THEN ACoefIter(pa)
                       ELSE BCoefIter(pb)
    /\ i_stream' = 0
    /\ j_cached' = 0
    /\ results' = <<>>
    /\ r_idx' = 0
    /\ refined' = <<>>
    /\ phase' = "enumerating"
    /\ UNCHANGED <<e_const, hash_table, gcf_signal, e_limit>>
    /\ UNCHANGED <<vars_tab, vars_part, vars_snap>>

\* the outer loop passes a streamed assignment: its series has a zero
\* (`continue`), or the cached list is empty and the inner loop has no pass
EnumSkip ==
    /\ phase = "enumerating"
    /\ i_stream < Len(stream_coefs)
    /\ \/ ~SeriesNonZero(stream_coefs[i_stream + 1])
       \/ Len(cached_coefs) = 0
    /\ i_stream' = i_stream + 1
    /\ UNCHANGED <<e_const, hash_table, gcf_signal, e_poly_a, e_poly_b, phase,
                   cache_side, cached_coefs, stream_coefs, j_cached, results,
                   r_idx, refined, e_limit>>
    /\ UNCHANGED <<vars_tab, vars_part, vars_snap>>

\* one pass of the inner loop: evaluate the fraction, take its key, probe
\* the table, append the Match on a hit
EnumProbe ==
    /\ phase = "enumerating"
    /\ i_stream < Len(stream_coefs)
    /\ SeriesNonZero(stream_coefs[i_stream + 1])
    /\ j_cached < Len(cached_coefs)
    /\ ~IsNanOrInf(PairValue)
    /\ \E val \in {PairValue} : \E key \in {KeyOf(val, hash_table.threshold_inv)} :
          results' = IF key \in DOMAIN hash_table.s
                     THEN Append(results, Match(hash_table.s[key], PairA, PairB))
                     ELSE results
    /\ IF j_cached + 1 = Len(cached_coefs)
       THEN i_stream' = i_stream + 1 /\ j_cached' = 0
       ELSE i_stream' = i_stream /\ j_cached' = j_cached + 1
    /\ UNCHANGED <<e_const, hash_table, gcf_signal, e_poly_a, e_poly_b, phase,
                   cache_side, cached_coefs, stream_coefs, r_idx, refined, e_limit>>
    /\ UNCHANGED <<vars_tab, vars_part, vars_snap>>

\* one pass of the inner loop on a degenerate fraction: evaluate() raises
\* ZeroDivisionError, or returns a value that is not finite and int() raises
\* ValueError / OverflowError; nothing in __first_enumeration or find_hits
\* catches it
EnumRaise ==
    /\ phase = "enumerating"
    /\ i_stream < Len(stream_coefs)
    /\ SeriesNonZero(stream_coefs[i_stream + 1])
    /\ j_cached < Len(cached_coefs)
    /\ IsNanOrInf(PairValue)
    /\ phase' = "aborted"
    /\ UNCHANGED <<e_const, hash_table, gcf_signal, e_poly_a, e_poly_b,
                   cache_side, cached_coefs, stream_coefs, i_stream, j_cached,
                   results, r_idx, refined, e_limit>>
    /\ UNCHANGED <<vars_tab, vars_part, vars_snap>>

\* `return results` taken inside the outer loop: the refinement starts while
\* candidates are still to be enumerated
MutEnumReturnEarly ==
    /\ phase = "enumerating"
    /\ i_stream <= Len(stream_coefs)
    /\ phase' = "verifying"
    /\ r_idx' = 0
    /\ refined' = <<>>
    /\ UNCHANGED <<e_const, hash_table, gcf_signal, e_poly_a, e_poly_b,
                   cache_side, cached_coefs, stream_coefs, i_stream, j_cached,
                   results, e_limit>>
    /\ UNCHANGED <<vars_tab, vars_part, vars_snap>>

\* the outer loop is exhausted: `return results`, and find_hits goes on to
\* __refine_results
EnumReturn ==
    /\ phase = "enumerating"
    /\ i_stream = Len(stream_coefs)
    /\ phase' = "verifying"
    /\ r_idx' = 0
    /\ refined' = <<>>
    /\ UNCHANGED <<e_const, hash_table, gcf_signal, e_poly_a, e_poly_b,
                   cache_side, cached_coefs, stream_coefs, i_stream, j_cached,
                   results, e_limit>>
    /\ UNCHANGED <<vars_tab, vars_part, vars_snap>>

----------------------------------------------------------------------------
\* EnumerateOverGCF.__init__ and EnumerateOverGCF.__refine_results

\* MobiusTransform(lhs_coefs)(x) = (a*x + b)/(c*x + d) for x = <<x1, x2>>; a
\* zero second component is the division by zero the call raises on
Mobius(m, x) == <<m[1] * x[1] + m[2] * x[2], m[3] * x[1] + m[4] * x[2]>>

RECURSIVE Pow10(_)
Pow10(n) == IF n <= 0 THEN 1 ELSE 10 * Pow10(n - 1)

\* the n-digit mantissa and the exponent of num/den > 0, rounded to nearest
RECURSIVE Mantissa(_, _, _, _)
Mantissa(num, den, e, n) ==
    IF num < den * Pow10(n - 1) THEN Mantissa(num * 10, den, e - 1, n)
    ELSE IF num >= den * Pow10(n) THEN Mantissa(num, den * 10, e + 1, n)
    ELSE LET mant == (2 * num + den) \div (2 * den)
         IN  IF mant = Pow10(n) THEN <<Pow10(n - 1), e + 1>> ELSE <<mant, e>>

\* mpmath.nstr(v, n): the decimal string of v with n significant digits, as
\* <<sign, mantissa, exponent>>; "nan" and "inf" are <<2, 0, 0>>.  (The
\* one-element set binds v to its value, so that TLC computes it once.)
nstr(v, n) ==
    CHOOSE str \in
        { IF w[2] = 0 THEN <<2, 0, 0>>
          ELSE IF w[1] = 0 THEN <<0, 0, 0>>
          ELSE LET me == Mantissa(Abs(w[1]), Abs(w[2]), 0, n)
               IN  <<IF (w[1] < 0) = (w[2] < 0) THEN 1 ELSE -1, me[1], me[2]>> :
          w \in {v} } : TRUE

\* lines 277-286: the Match is dropped before its fraction is evaluated:
\* t(const) raises ZeroDivisionError (caught), is not finite, t(1) raises
\* ZeroDivisionError (caught), or t(const) is almost equal to t(1)
LhsRejected(r) ==
    LET val == Mobius(r.lhs_coefs, e_const)
        one == Mobius(r.lhs_coefs, <<1, 1>>)
    IN  \/ val[2] = 0
        \/ IsNanOrInf(val)
        \/ one[2] = 0
        \/ AlmostEqTol(val, one, VerifyDps \div 20)

\* lines 289-291: the fraction of the regenerated long series
LongValue(r) ==
    GcfValue(create_series(r.rhs_an_poly, VerifyTerms),
             create_series(r.rhs_bn_poly, VerifyTerms))

\* lines 292-294: val_str == rhs_str
StringsEqual(r) ==
    nstr(Mobius(r.lhs_coefs, e_const), ConfirmDigits) = nstr(LongValue(r), ConfirmDigits)

\* EnumerateOverGCF.__init__ with saved_hash == '': the table is built
Construct ==
    /\ phase = "new"
    /\ \E th \in ThresholdInvs :
          hash_table' = [threshold_inv |-> th, s |-> LHSHashTable(e_limit, e_const, th)]
    /\ phase' = "init"
    /\ UNCHANGED <<e_const, gcf_signal, e_poly_a, e_poly_b, cache_side,
                   cached_coefs, stream_coefs, i_stream, j_cached, results,
                   r_idx, refined, e_limit>>
    /\ UNCHANGED <<vars_tab, vars_part, vars_snap>>

\* lhs_search_limit of the enumerators of the searches
EnumLimits == {1}

\* the complete tables of the enumerators of the constant cv
TablesOf(cv) ==
    {[threshold_inv |-> th, s |-> LHSHashTable(L, cv, th)] :
        L \in EnumLimits, th \in ThresholdInvs}

\* the tables a snapshot file can hold
SavedTables == UNION {TablesOf(cv) : cv \in ConstVals}

\* EnumerateOverGCF.__init__ with a saved_hash: the table is load_from's, a
\* snapshot an enumerator of the same constant saved
ConstructLoad ==
    /\ phase = "new"
    /\ hash_table' \in TablesOf(e_const)
    /\ phase' = "init"
    /\ UNCHANGED <<e_const, gcf_signal, e_poly_a, e_poly_b, cache_side,
                   cached_coefs, stream_coefs, i_stream, j_cached, results,
                   r_idx, refined, e_limit>>
    /\ UNCHANGED <<vars_tab, vars_part, vars_snap>>

\* EnumerateOverGCF.__init__ with a saved_hash whose file cannot be read:
\* load_from raises, no enumerator is constructed
ConstructFail ==
    /\ phase = "new"
    /\ phase' = "failed"
    /\ UNCHANGED <<e_const, hash_table, gcf_signal, e_poly_a, e_poly_b,
                   cache_side, cached_coefs, stream_coefs, i_stream, j_cached,
                   results, r_idx, refined, e_limit>>
    /\ UNCHANGED <<vars_tab, vars_part, vars_snap>>

\* one pass of the loop of __refine_results that ends without an exception
RefineStep ==
    /\ phase = "verifying"
    /\ r_idx < Len(results)
    /\ LET r == results[r_idx + 1]
       IN  /\ LhsRejected(r) \/ ~IsNanOrInf(LongValue(r)) \/ gcf_signal = "nonfinite"
           /\ refined' = IF ~LhsRejected(r) /\ StringsEqual(r)
                         THEN Append(refined, r)
                         ELSE refined
    /\ r_idx' = r_idx + 1
    /\ UNCHANGED <<e_const, hash_table, gcf_signal, e_poly_a, e_poly_b, phase,
                   cache_side, cached_coefs, stream_coefs, i_stream, j_cached,
                   results, e_limit>>
    /\ UNCHANGED <<vars_tab, vars_part, vars_snap>>

\* one pass of that loop in which gcf.evaluate() (line 293, outside the try)
\* raises ZeroDivisionError on a degenerate fraction
RefineRaise ==
    /\ phase = "verifying"
    /\ r_idx < Len(results)
    /\ LET r == results[r_idx + 1]
       IN  /\ ~LhsRejected(r)
           /\ IsNanOrInf(LongValue(r))
           /\ gcf_signal = "raise"
    /\ phase' = "aborted"
    /\ UNCHANGED <<e_const, hash_table, gcf_signal, e_poly_a, e_poly_b,
                   cache_side, cached_coefs, stream_coefs, i_stream, j_cached,
                   results, r_idx, refined, e_limit>>
    /\ UNCHANGED <<vars_tab, vars_part, vars_snap>>

\* `return results` of __refine_results and `return refined_results` of find_hits
RefineReturn ==
    /\ phase = "verifying"
    /\ r_idx = Len(results)
    /\ phase' = "done"
    /\ UNCHANGED <<e_const, hash_table, gcf_signal, e_poly_a, e_poly_b,
                   cache_side, cached_coefs, stream_coefs, i_stream, j_cached,
                   results, r_idx, refined, e_limit>>
    /\ UNCHANGED <<vars_tab, vars_part, vars_snap>>

\* coefficient ranges of a polynomial term; -EnumTerms cancels n at the
\* first index the enumeration series does not reach
CoefRanges == {<<1>>, <<0, 1>>, <<1, 2>>, <<-EnumTerms>>}

\* the compact polynomials of a request: one or two terms
PolyRequests ==
    {<<r>> : r \in CoefRanges} \cup {<<r, q>> : r \in CoefRanges, q \in CoefRanges}

InitEnum ==
    /\ e_const \in ConstVals
    /\ e_limit \in EnumLimits
    /\ hash_table = None
    /\ gcf_signal \in {"raise", "nonfinite"}
    /\ e_poly_a = <<>>
    /\ e_poly_b = <<>>
    /\ phase = "new"
    /\ cache_side = "a"
    /\ cached_coefs = <<>>
    /\ stream_coefs = <<>>
    /\ i_stream = 0
    /\ j_cached = 0
    /\ results = <<>>
    /\ r_idx = 0
    /\ refined = <<>>
    /\ IdleTable
    /\ IdlePart
    /\ IdleSnap

NextEnum ==
    \/ Construct
    \/ ConstructLoad
    \/ ConstructFail
    \/ \E pa \in PolyRequests : \E pb \in PolyRequests : EnumStart(pa, pb)
    \/ EnumSkip
    \/ EnumProbe
    \/ EnumRaise
    \/ EnumReturn
    \/ RefineStep
    \/ RefineRaise
    \/ RefineReturn

SpecEnum == InitEnum /\ [][NextEnum]_vars

\* the steps inside a call of find_hits: once called, the sequential code
\* runs on until it returns or raises
FindHitsSteps ==
    \/ EnumSkip
    \/ EnumProbe
    \/ EnumRaise
    \/ EnumReturn
    \/ RefineStep
    \/ RefineRaise
    \/ RefineReturn

\* the search with a call of find_hits that is never suspended forever
SpecEnumLive == InitEnum /\ [][NextEnum]_vars /\ WF_vars(FindHitsSteps)

----------------------------------------------------------------------------
\* Claims about the search (checked under SpecEnum).

\* C8: no Match of the first enumeration has an a_n or a b_n coefficient
\* assignment whose series has a zero term, at any index of the series that
\* is regenerated for verification, whichever side was cached.
C8_ZeroTermExclusion ==
    \A k \in 1..Len(results) :
        /\ ~HasZero(create_series(results[k].rhs_bn_poly, VerifyTerms))
        /\ ~HasZero(create_series(results[k].rhs_an_poly, VerifyTerms))

\* C9: a candidate whose evaluation fails or is degenerate, in the first
\* enumeration or in the refinement, is discarded and the run goes on:
\* find_hits never aborts.
C9_FailureIsolation == phase # "aborted"

\* the first enumeration raised: nothing was returned
EnumAborted == phase = "aborted" /\ i_stream < Len(stream_coefs)

\* the set of Matches __first_enumeration returned
ReturnedMatches == IF EnumAborted THEN {} ELSE Elems(results)

\* the reference set of Matches of a request
ReferenceMatches ==
    {Match(hash_table.s[KeyOf(GcfValue(create_series(pr[1], EnumTerms),
                                       create_series(pr[2], EnumTerms)),
                              hash_table.threshold_inv)], pr[1], pr[2]) :
        pr \in {q \in Elems(ACoefIter(e_poly_a)) \X Elems(BCoefIter(e_poly_b)) :
                  /\ ~HasZero(create_series(q[1], EnumTerms))
                  /\ ~HasZero(create_series(q[2], EnumTerms))
                  /\ ~IsNanOrInf(GcfValue(create_series(q[1], EnumTerms),
                                          create_series(q[2], EnumTerms)))
                  /\ KeyOf(GcfValue(create_series(q[1], EnumTerms),
                                    create_series(q[2], EnumTerms)),
                           hash_table.threshold_inv) \in DOMAIN hash_table.s}}

\* C10: the side held in memory is the one with fewer assignments (the b
\* side counted twice, the a side on a tie), and whichever side it is the
\* first enumeration returns exactly the reference set of Matches: one
\* Match (table entry, a assignment, b assignment) for every pair of
\* zero-free assignments whose key is in the table.
C10_MatchingCompleteness ==
    /\ phase \in {"enumerating", "verifying", "done", "aborted"} =>
          (cache_side = "a") =
              (NumberOfElements(e_poly_a) <= 2 * NumberOfElements(e_poly_b))
    /\ phase \in {"verifying", "done", "aborted"} =>
          ReturnedMatches = ReferenceMatches

\* the three conditions of the keep rule on a Match: the transform at the
\* constant is defined and finite, it is not almost equal to the transform
\* at 1 (a transform with c + d = 0 has no value at 1 to be equal to), and
\* the two decimal strings are identical
KeepRule(r) ==
    LET val == Mobius(r.lhs_coefs, e_const)
        one == Mobius(r.lhs_coefs, <<1, 1>>)
    IN  /\ val[2] # 0
        /\ ~(one[2] # 0 /\ AlmostEqTol(val, one, VerifyDps \div 20))
        /\ StringsEqual(r)

\* C11: the list find_hits returns is the list of the Matches of the first
\* enumeration that satisfy the three conditions of the keep rule, in their
\* order: a Match is kept if and only if it satisfies them, and none is
\* added, altered or duplicated.
C11_VerifierKeepRule ==
    phase = "done" => refined = SelectSeq(results, KeepRule)

\* the phase changes of an orchestrator: construction, then for each call of
\* find_hits enumeration, verification and the return; a raise ends a call
PhaseOrder ==
    { <<"new", "init">>, <<"new", "failed">>,
      <<"init", "enumerating">>, <<"done", "enumerating">>,
      <<"aborted", "enumerating">>,
      <<"enumerating", "verifying">>, <<"enumerating", "aborted">>,
      <<"verifying", "done">>, <<"verifying", "aborted">> }

\* what holds in each phase
PhaseInvariant ==
    /\ phase \in {"new", "failed"} => hash_table = None
    /\ phase \in {"init", "enumerating", "verifying", "done", "aborted"} =>
          hash_table \in SavedTables
    /\ phase \in {"new", "failed", "init", "enumerating"} =>
          r_idx = 0 /\ refined = <<>>
    /\ phase \in {"verifying", "done"} => i_stream = Len(stream_coefs)
    /\ phase = "done" => r_idx = Len(results)

\* what a step may do in each phase
PhaseStep ==
    /\ phase' # phase => <<phase, phase'>> \in PhaseOrder
    /\ hash_table' # hash_table => phase = "new"
    /\ (i_stream' > i_stream \/ j_cached' > j_cached \/ Len(results') > Len(results)) =>
          /\ phase = "enumerating" /\ phase' = "enumerating"
          /\ hash_table \in SavedTables
    /\ (r_idx' > r_idx \/ Len(refined') > Len(refined)) =>
          /\ phase = "verifying" /\ phase' = "verifying"
          /\ i_stream = Len(stream_coefs)
          /\ results' = results

\* C12: the phases of an orchestrator occur only in the order construction
\* (the table built or loaded), enumeration, verification, done; nothing is
\* enumerated before the table is complete and the table is not changed
\* afterwards, no candidate is verified before the enumeration has passed
\* every candidate of the request, no phase is entered twice within one
\* call of find_hits, and every call that does not raise reaches done with
\* every Match passed by the verifier.
C12_OrchestratorOrdering ==
    /\ []PhaseInvariant
    /\ [][PhaseStep]_vars
    /\ (phase = "enumerating") ~> (phase \in {"done", "aborted"})

\* a call of find_hits went through every phase and returned confirmed results
C12_Witness == phase = "done" /\ r_idx = Len(results) /\ Len(refined) > 0

----------------------------------------------------------------------------
\* Claims about the work split (checked under SpecPart).

AllSliced == wpc \in {"running", "returned"} /\ \A i \in Workers : w_pc[i] # "pending"

\* every tile size times the number of workers is the length of its term
ExactTiles ==
    \A k \in 1..Len(splits_size) : splits_size[k] * num_cores = Len(arg_poly_a[k])

\* the coefficient assignments worker i enumerates
SearchedBy(i) == Elems(ProductSeq(w_poly_a[i]))

\* C1: with tile sizes that divide each partitioned term's range exactly by
\* the number of workers, the workers' products together are the full
\* product of poly_a, and no assignment belongs to two workers; for one
\* partitioned term and for several.
C1_PartitionCoverage ==
    (AllSliced /\ ExactTiles) =>
        /\ UNION {SearchedBy(i) : i \in Workers} = Elems(ProductSeq(arg_poly_a))
        /\ \A i \in Workers : \A j \in Workers :
              i # j => SearchedBy(i) \cap SearchedBy(j) = {}

RECURSIVE ConcatFirst(_, _)
\* lists[0] + lists[1] + ... + lists[n-1]
ConcatFirst(lists, n) ==
    IF n = 0 THEN <<>> ELSE ConcatFirst(lists, n - 1) \o lists[n - 1]

\* C2: without manual_splits_size only the first term is split, with
\* tile = len(poly_a[0]) // num_cores: each worker but the last takes tile
\* consecutive values, the last takes the rest, the slices are disjoint and
\* in worker order make up poly_a[0], and every worker has the other terms
\* of poly_a and all of poly_b in full.
C2_DefaultSplit ==
    (manual_splits_size = None /\ wpc \in {"running", "returned"}) =>
        LET first == arg_poly_a[1]
            tile  == Len(first) \div num_cores
        IN  /\ \A i \in Workers :
                  w_pc[i] # "pending" =>
                      /\ Len(w_poly_a[i]) = Len(arg_poly_a)
                      /\ i < num_cores - 1 =>
                            /\ Len(w_poly_a[i][1]) = tile
                            /\ w_poly_a[i][1] = SubSeq(first, i * tile + 1, (i + 1) * tile)
                      /\ i = num_cores - 1 =>
                            w_poly_a[i][1] = SubSeq(first, i * tile + 1, Len(first))
                      /\ \A k \in 2..Len(arg_poly_a) : w_poly_a[i][k] = arg_poly_a[k]
                      /\ w_poly_b[i] = poly_b
            /\ AllSliced =>
                  /\ ConcatFirst([i \in Workers |-> w_poly_a[i][1]], num_cores) = first
                  /\ \A i \in Workers : \A j \in Workers :
                        i # j => Elems(w_poly_a[i][1]) \cap Elems(w_poly_a[j][1]) = {}

\* a default split over several workers of a two-term poly_a whose first
\* range is not a multiple of the worker count, every worker done slicing
C2_Witness ==
    /\ manual_splits_size = None
    /\ AllSliced
    /\ num_cores >= 2
    /\ Len(arg_poly_a) = 2
    /\ Len(arg_poly_a[1]) % num_cores # 0
    /\ Len(arg_poly_a[1]) \div num_cores >= 1

\* a default split of a range shorter than the number of workers
C2_WitnessShort ==
    /\ manual_splits_size = None
    /\ AllSliced
    /\ Len(arg_poly_a[1]) < num_cores

\* C3: the wrapper returns one flat list: worker 0's results, then worker
\* 1's, ..., then worker N-1's, whatever order the workers finished in; with
\* one worker nothing is spawned and the shape is the same.
C3_Aggregation ==
    wpc = "returned" =>
        /\ ret.flat
        /\ ret.list = ConcatFirst(w_results, num_cores)
        /\ num_cores = 1 => spawned = 0

----------------------------------------------------------------------------
\* Claims about snapshots (checked under SpecSnap).

\* C4: whatever saves and loads came before, load_from(name) returns a table
\* equal (threshold and key set) to the table most recently saved under name.
C4_SnapshotRoundTrip ==
    (loaded # None /\ loaded.name \in DOMAIN last_saved) =>
        TableEq(loaded.table, last_saved[loaded.name])

----------------------------------------------------------------------------
\* Claims about the LHS table (checked under SpecTable).

\* the value of a stored transform lies within tolerance of the same
\* transform at x = 1; (a+b)/(c+d) with c + d = 0 is not a finite number and
\* no finite value lies within tolerance of it
NearValueAtOne(m, cv) ==
    /\ ~IsNanOrInf(ValAtOne(m))
    /\ almosteq(ValOf(m, cv), ValAtOne(m), WorkPrec)

\* C5: every entry stored in a table, at every moment of its construction,
\* has gcd(a,b,c,d) = 1, a non-zero denominator c*const+d, a non-zero
\* numerator a*const+b, a finite value, and a value that is not within
\* tolerance of (a+b)/(c+d); entries with negative c or d and entries with
\* c + d = 0 included.
C5_EntryInvariant ==
    \A k \in DOMAIN s :
        LET m == s[k]
        IN  /\ gcd(gcd(m[1], m[2]), gcd(m[3], m[4])) = 1
            /\ m[3] * const_val[1] + m[4] * const_val[2] # 0
            /\ m[1] * const_val[1] + m[2] * const_val[2] # 0
            /\ ~IsNanOrInf(ValOf(m, const_val))
            /\ ~NearValueAtOne(m, const_val)

\* a finished table that holds an entry with a negative c or d and an entry
\* with c + d = 0
C5_Witness ==
    /\ tpc = "built"
    /\ \E k \in DOMAIN s : s[k][3] < 0 \/ s[k][4] < 0
    /\ \E k \in DOMAIN s : s[k][3] + s[k][4] = 0

\* the iterations among the first n whose tuple passes the filters and has key k
AcceptedWithKey(k, n) ==
    {i \in 0..(n - 1) :
        /\ Accepted(TupleAt(i, lhs_limit), const_val)
        /\ KeyOf(ValOf(TupleAt(i, lhs_limit), const_val), threshold_inv) = k}

SetMin(S) == CHOOSE x \in S : \A y \in S : x <= y

\* in a finished table every key maps to the tuple of the first iteration
\* (a outermost, d innermost) that passed the filters with that key, and
\* every key some accepted tuple has is present
FirstTupleStored ==
    tpc = "built" =>
        /\ \A k \in DOMAIN s :
              /\ AcceptedWithKey(k, pos) # {}
              /\ s[k] = TupleAt(SetMin(AcceptedWithKey(k, pos)), lhs_limit)
        /\ \A i \in 0..(pos - 1) :
              Accepted(TupleAt(i, lhs_limit), const_val) =>
                  KeyOf(ValOf(TupleAt(i, lhs_limit), const_val), threshold_inv)
                      \in DOMAIN s

\* a step of the construction keeps every entry already stored
EntriesKept ==
    tpc = "building" =>
        \A k \in DOMAIN s : k \in DOMAIN s' /\ s'[k] = s[k]

\* C6: when several accepted tuples have the same key the table stores the
\* first of them in enumeration order and drops the later ones; no step of
\* the construction overwrites or removes an entry.
C6_FirstInsertedWins == []FirstTupleStored /\ [][EntriesKept]_vars

\* the iteration just passed had an accepted tuple whose key was taken by an
\* earlier, different tuple: a collision that was dropped
C6_Witness ==
    /\ tpc = "building"
    /\ pos > 0
    /\ LET m == TupleAt(pos - 1, lhs_limit)
           k == KeyOf(ValOf(m, const_val), threshold_inv)
       IN  /\ Accepted(m, const_val)
           /\ k \in DOMAIN s
           /\ s[k] # m

\* C7: a table never has more keys than tuples considered, and of two tables
\* built for the same constant and threshold the one with the smaller search
\* limit has a key set included in the other's (so no more keys).
C7_KeySetMonotone ==
    /\ Cardinality(DOMAIN s) <= pos
    /\ pos <= NumTuples(lhs_limit)
    /\ (tpc = "built" /\ prev_table # None) =>
          /\ prev_table.limit <= lhs_limit =>
                /\ DOMAIN prev_table.s \subseteq DOMAIN s
                /\ Cardinality(DOMAIN prev_table.s) <= Cardinality(DOMAIN s)
          /\ lhs_limit <= prev_table.limit =>
                /\ DOMAIN s \subseteq DOMAIN prev_table.s
                /\ Cardinality(DOMAIN s) <= Cardinality(DOMAIN prev_table.s)

\* two finished tables, the later one for a larger limit, with a key set
\* that really grew
C7_Witness ==
    /\ tpc = "built"
    /\ prev_table # None
    /\ prev_table.limit < lhs_limit
    /\ DOMAIN prev_table.s # {}
    /\ DOMAIN prev_table.s # DOMAIN s

====
